---- MODULE Spec2Model ----
(***************************************************************************)
(* Model of the encrypted banking application src/app.py: a Flask app      *)
(* whose User rows keep their balance as a serialized CKKS ciphertext and  *)
(* whose deposit / withdraw / transfer views do ciphertext arithmetic.     *)
(*                                                                         *)
(* Money is counted in mills (1/1000 of a currency unit), so that amounts  *)
(* with three fractional digits exist and round(x, 2) is a real rounding.  *)
(* The CKKS approximation error is far below one mill; its only visible    *)
(* effect, the direction round(x, 2) takes on an exact half cent, is a     *)
(* nondeterministic choice (Round2Set).                                    *)
(*                                                                         *)
(* Spec      one client (one session cookie), every POST request atomic.   *)
(* SpecConc  several in-flight requests, each split at its database reads  *)
(*           and its commit, the points where the threaded server can      *)
(*           interleave them, and a crash of a request at any point.       *)
(***************************************************************************)
EXTENDS Integers, Sequences, FiniteSets, TLC

\* The balances (in mills) the model lets an account reach: -MaxDebt..MaxBal.
MaxBal == 10

MaxDebt == 5

\* Number of in-flight requests in SpecConc.
NThreads == 2

\* round(x, 2): one cent is ten mills.
Cent == 10

\* request.form values the model enumerates.
Names == {"alice", "bob", "carol"}
Passwords == {"pw1", "pw2"}
Amounts == {-10, 0, 5, 10}

\* 'user_id' not in session.
NoUser == 0

\* encrypted_balance IS NULL.
NoBlob == <<>>

\* No request holds the database's write lock.
NoWriter == 0

VARIABLES
    users,      \* the user table: users[id] is the row with primary key id
    session,    \* session['user_id'] of the client, or NoUser
    last,       \* the request handled last and how it ended
    thr,        \* SpecConc: the in-flight requests
    users0,     \* SpecConc: the user table when the requests were started
    writer      \* SpecFair: the request holding the database's write lock

vars == <<users, session, last, thr, users0, writer>>

----------------------------------------------------------------------------
\* The encryption context and the balance codec (src/app.py 13-36).

\* ts.ckks_vector(context, [value]): a ciphertext holding one slot.
ckks_vector(value) == [scheme |-> "CKKS", slot |-> value]

\* CKKSVector.serialize(): the blob stored in encrypted_balance.
serialize(vec) == <<"CKKS", vec.slot>>

\* ts.ckks_vector_from(context, blob).
ckks_vector_from(blob) == [scheme |-> blob[1], slot |-> blob[2]]

\* CKKSVector.decrypt(): the list of slots.
decrypt(vec) == <<vec.slot>>

\* Homomorphic a + b and a - b on ciphertexts.
ckks_add(a, b) == [scheme |-> "CKKS", slot |-> a.slot + b.slot]

ckks_sub(a, b) == [scheme |-> "CKKS", slot |-> a.slot - b.slot]

\* A rounding that cuts the digits after the second instead of rounding.
Round2Floor(x) == {(x \div Cent) * Cent}

\* The values round(x, 2) can return for the decrypted slot x (in mills):
\* the nearest cent, either neighbour on an exact half cent.
Round2Set(x) ==
    LET lo == (x \div Cent) * Cent
        r == x % Cent
    IN  IF 2 * r < Cent THEN {lo}
        ELSE IF 2 * r > Cent THEN {lo + Cent}
        ELSE {lo, lo + Cent}

\* A getter that returns the decrypted slot as it is, not rounded.
balance_unrounded(row) ==
    IF row.encrypted_balance # NoBlob
    THEN {decrypt(ckks_vector_from(row.encrypted_balance))[1]}
    ELSE {0}

\* User.balance (getter): the values the property can return for a row.
balance(row) ==
    IF row.encrypted_balance # NoBlob
    THEN Round2Set(decrypt(ckks_vector_from(row.encrypted_balance))[1])
    ELSE {0}

\* A setter that encrypts the value and does not store the result.
set_balance_dropped(row, value) == row

\* User.balance = value (setter).
set_balance(row, value) ==
    [row EXCEPT !.encrypted_balance = serialize(ckks_vector(value))]

\* werkzeug's generate_password_hash / check_password_hash.
generate_password_hash(password) == <<"hash", password>>

check_password_hash(hash, password) == hash = <<"hash", password>>

----------------------------------------------------------------------------
\* The user table.

Ids(db) == 1..Len(db)

\* User.query.filter_by(username=username).first(): the id, or NoUser.
first_by_username(db, username) ==
    IF \E i \in Ids(db) : db[i].username = username
    THEN CHOOSE i \in Ids(db) : db[i].username = username
    ELSE NoUser

\* The exact plaintext a stored ciphertext holds (not rounded).
Plain(row) == IF row.encrypted_balance = NoBlob THEN 0 ELSE row.encrypted_balance[2]

RECURSIVE SumTo(_, _)
SumTo(db, n) == IF n = 0 THEN 0 ELSE Plain(db[n]) + SumTo(db, n - 1)

Total(db) == SumTo(db, Len(db))

InRange(db) == \A i \in Ids(db) : Plain(db[i]) >= -MaxDebt /\ Plain(db[i]) <= MaxBal

\* A handled request: the view, how it ended, the form's amount and username
\* (recipient), and for login the form's password, for a page that renders
\* user.balance the value shown.
Req(op, outcome, amount, name) ==
    [op |-> op, outcome |-> outcome, amount |-> amount, name |-> name,
     password |-> "", shown |-> 0]

----------------------------------------------------------------------------
\* What each view does to the user table (one POST request, start to commit).

\* register with the check of line 48 left out.
register_unchecked(db, username, password) ==
    Append(db, [username |-> username,
                password |-> generate_password_hash(password),
                encrypted_balance |-> serialize(ckks_vector(0))])

\* register, lines 47-55: a new row with the next id, unless the name is taken.
register_db(db, username, password) ==
    IF first_by_username(db, username) # NoUser
    THEN db
    ELSE Append(db, set_balance([username |-> username,
                                 password |-> generate_password_hash(password),
                                 encrypted_balance |-> NoBlob], 0))

\* login without the password test of line 66.
login_any_password(db, username, password) == first_by_username(db, username)

\* login, line 66: the id stored in the session, or NoUser when login fails.
login_user(db, username, password) ==
    LET user == first_by_username(db, username)
    IN  IF user # NoUser /\ check_password_hash(db[user].password, password)
        THEN user
        ELSE NoUser

\* deposit that stores the amount instead of adding it.
deposit_overwrite(db, user, amount) ==
    [db EXCEPT ![user].encrypted_balance = serialize(ckks_vector(amount))]

\* deposit, lines 121-124.
deposit_db(db, user, amount) ==
    LET current_balance == ckks_vector_from(db[user].encrypted_balance)
        deposit_amount == ckks_vector(amount)
        new_balance == ckks_add(current_balance, deposit_amount)
    IN  [db EXCEPT ![user].encrypted_balance = serialize(new_balance)]

\* withdraw, line 137: the test on the rounded balance bal.
withdraw_allowed(bal, amount) == bal >= amount

\* withdraw, lines 138-141.
withdraw_apply(db, user, amount) ==
    LET current_balance == ckks_vector_from(db[user].encrypted_balance)
        withdraw_amount == ckks_vector(amount)
        new_balance == ckks_sub(current_balance, withdraw_amount)
    IN  [db EXCEPT ![user].encrypted_balance = serialize(new_balance)]

\* withdraw that subtracts before it looks at the test of line 137.
withdraw_unchecked(db, user, amount, bal) == withdraw_apply(db, user, amount)

\* withdraw, lines 137-146, given the value bal the balance property returned.
withdraw_db(db, user, amount, bal) ==
    IF withdraw_allowed(bal, amount) THEN withdraw_apply(db, user, amount) ELSE db

\* transfer, line 96: recipient is the id found for the name, or NoUser.
transfer_allowed(recipient, bal, amount) == recipient # NoUser /\ bal >= amount

\* transfer that debits the sender twice.
transfer_sender_twice(db, sender, amount) ==
    serialize(ckks_sub(ckks_sub(ckks_vector_from(db[sender].encrypted_balance),
                                ckks_vector(amount)),
                       ckks_vector(amount)))

\* transfer, lines 98, 100, 102: the sender's new ciphertext.
transfer_new_sender(db, sender, amount) ==
    LET sender_balance == ckks_vector_from(db[sender].encrypted_balance)
        transfer_amount == ckks_vector(amount)
    IN  serialize(ckks_sub(sender_balance, transfer_amount))

\* transfer that stores the recipient's ciphertext back without the credit.
transfer_recipient_uncredited(db, recipient, amount) ==
    serialize(ckks_vector_from(db[recipient].encrypted_balance))

\* transfer, lines 99, 100, 103: the recipient's new ciphertext.
transfer_new_recipient(db, recipient, amount) ==
    LET recipient_balance == ckks_vector_from(db[recipient].encrypted_balance)
        transfer_amount == ckks_vector(amount)
    IN  serialize(ckks_add(recipient_balance, transfer_amount))

\* transfer, lines 98-106.  Both new ciphertexts are computed before either
\* row is assigned; when sender and recipient are the same row (the session's
\* identity map returns one object for both queries) the second assignment
\* overwrites the first.
transfer_apply(db, sender, recipient, amount) ==
    LET new_sender_balance == transfer_new_sender(db, sender, amount)
        new_recipient_balance == transfer_new_recipient(db, recipient, amount)
        db1 == [db EXCEPT ![sender].encrypted_balance = new_sender_balance]
    IN  [db1 EXCEPT ![recipient].encrypted_balance = new_recipient_balance]

\* transfer, lines 96-111, given the value bal the sender's balance returned.
transfer_db(db, sender, recipient, amount, bal) ==
    IF transfer_allowed(recipient, bal, amount)
    THEN transfer_apply(db, sender, recipient, amount)
    ELSE db

----------------------------------------------------------------------------
\* Spec: one client, every request atomic.

Init ==
    /\ users = <<>>
    /\ session = NoUser
    /\ last = Req("none", "none", 0, "")
    /\ thr = <<>>
    /\ users0 = <<>>
    /\ writer = NoWriter

Register(username, password) ==
    /\ users' = register_db(users, username, password)
    /\ last' = Req("register",
                   IF first_by_username(users, username) # NoUser THEN "exists" ELSE "created",
                   0, username)
    /\ UNCHANGED <<session, thr, users0, writer>>

Login(username, password) ==
    /\ IF login_user(users, username, password) # NoUser
       THEN /\ session' = login_user(users, username, password)
            /\ last' = [Req("login", "ok", 0, username) EXCEPT !.password = password]
       ELSE /\ session' = session
            /\ last' = [Req("login", "invalid", 0, username) EXCEPT !.password = password]
    /\ UNCHANGED <<users, thr, users0, writer>>

Logout ==
    /\ session' = NoUser
    /\ last' = Req("logout", "ok", 0, "")
    /\ UNCHANGED <<users, thr, users0, writer>>

\* dashboard, lines 82-85; dashboard.html renders user.balance.
Dashboard ==
    /\ IF session = NoUser
       THEN last' = Req("dashboard", "redirect", 0, "")
       ELSE \E bal \in balance(users[session]) :
               last' = [Req("dashboard", "ok", 0, "") EXCEPT !.shown = bal]
    /\ UNCHANGED <<users, session, thr, users0, writer>>

DepositReq(amount) ==
    /\ IF session = NoUser
       THEN /\ users' = users
            /\ last' = Req("deposit", "redirect", amount, "")
       ELSE /\ users' = deposit_db(users, session, amount)
            /\ last' = Req("deposit", "applied", amount, "")
    /\ UNCHANGED <<session, thr, users0, writer>>

\* Deposit, with the result kept within the balances the model enumerates.
Deposit(amount) == DepositReq(amount) /\ InRange(users')

WithdrawReq(amount) ==
    /\ IF session = NoUser
       THEN /\ users' = users
            /\ last' = Req("withdraw", "redirect", amount, "")
       ELSE \E bal \in balance(users[session]) :
            /\ users' = withdraw_db(users, session, amount, bal)
            /\ last' = Req("withdraw",
                           IF withdraw_allowed(bal, amount) THEN "applied" ELSE "insufficient",
                           amount, "")
    /\ UNCHANGED <<session, thr, users0, writer>>

\* Withdraw, with the result kept within the balances the model enumerates.
Withdraw(amount) == WithdrawReq(amount) /\ InRange(users')

TransferReq(recipient_username, amount) ==
    /\ IF session = NoUser
       THEN /\ users' = users
            /\ last' = Req("transfer", "redirect", amount, recipient_username)
       ELSE \E bal \in balance(users[session]) :
            LET recipient == first_by_username(users, recipient_username)
            IN  /\ users' = transfer_db(users, session, recipient, amount, bal)
                /\ last' = Req("transfer",
                               IF transfer_allowed(recipient, bal, amount)
                               THEN "applied" ELSE "failed",
                               amount, recipient_username)
    /\ UNCHANGED <<session, thr, users0, writer>>

\* Transfer, with the result kept within the balances the model enumerates.
Transfer(recipient_username, amount) == TransferReq(recipient_username, amount) /\ InRange(users')

Next ==
    \/ \E username \in Names, password \in Passwords : Register(username, password)
    \/ \E username \in Names, password \in Passwords : Login(username, password)
    \/ Logout
    \/ Dashboard
    \/ \E amount \in Amounts : Deposit(amount)
    \/ \E amount \in Amounts : Withdraw(amount)
    \/ \E recipient_username \in Names, amount \in Amounts :
          Transfer(recipient_username, amount)

Spec == Init /\ [][Next]_vars

----------------------------------------------------------------------------
\* SpecConc: requests in flight on the threaded server.  Each request has its
\* own database session: the rows it loaded (objs), changed only in memory
\* until db.session.commit() writes the assigned ones in one transaction.

Threads == 1..NThreads

\* The amounts of the concurrent requests.
ConcAmounts == {5, 10}

Idle == [pc |-> "idle", op |-> "none", user_id |-> NoUser, amount |-> 0,
         name |-> "", recipient |-> NoUser, objs |-> <<>>, dirty |-> {},
         new_sender |-> NoBlob, new_recipient |-> NoBlob,
         outcome |-> "none", at |-> "none"]

\* The table the concurrent requests start from: alice (id 1) holds one cent,
\* bob (id 2) holds nothing.
ConcUsers ==
    deposit_db(register_db(register_db(<<>>, "alice", "pw1"), "bob", "pw1"), 1, Cent)

InitConc ==
    /\ users = ConcUsers
    /\ users0 = ConcUsers
    /\ session = NoUser
    /\ last = Req("none", "none", 0, "")
    /\ thr = [t \in Threads |-> Idle]
    /\ writer = NoWriter

\* A commit that writes the rows one transaction each and is cut after the
\* first (the assigned row with the smallest id).
commit_first_only(db, objs, dirty) ==
    [i \in Ids(db) |->
        IF i \in dirty /\ \A j \in dirty : i <= j
        THEN [db[i] EXCEPT !.encrypted_balance = objs[i].encrypted_balance]
        ELSE db[i]]

\* db.session.commit(), lines 108, 125, 142: one transaction that updates the
\* encrypted_balance of every row the request assigned.
commit(db, objs, dirty) ==
    [i \in Ids(db) |->
        IF i \in dirty
        THEN [db[i] EXCEPT !.encrypted_balance = objs[i].encrypted_balance]
        ELSE db[i]]

\* A logged-in client's POST arrives.
Begin(t, op, user_id, amount, name) ==
    /\ thr[t].pc = "idle"
    /\ thr' = [thr EXCEPT ![t] = [Idle EXCEPT !.pc = "get_user", !.op = op,
                                       !.user_id = user_id, !.amount = amount,
                                       !.name = name]]
    /\ UNCHANGED <<users, session, last, users0, writer>>

\* User.query.get(session['user_id']), lines 94, 120, 136.
GetUser(t) ==
    /\ thr[t].pc = "get_user"
    /\ thr' = [thr EXCEPT ![t].objs = (thr[t].user_id :> users[thr[t].user_id]),
                          ![t].pc = CASE thr[t].op = "transfer" -> "get_recipient"
                                      [] thr[t].op = "withdraw" -> "check"
                                      [] OTHER -> "assign"]
    /\ UNCHANGED <<users, session, last, users0, writer>>

\* User.query.filter_by(username=recipient_username).first(), line 95: a row
\* the session already holds is not loaded again.
GetRecipient(t) ==
    /\ thr[t].pc = "get_recipient"
    /\ LET recipient == first_by_username(users, thr[t].name)
       IN  thr' = [thr EXCEPT ![t].recipient = recipient,
                              ![t].objs = IF recipient = NoUser \/ recipient \in DOMAIN thr[t].objs
                                          THEN thr[t].objs
                                          ELSE thr[t].objs @@ (recipient :> users[recipient]),
                              ![t].pc = "check"]
    /\ UNCHANGED <<users, session, last, users0, writer>>

\* The test of line 96 or 137 on the loaded row, and for a transfer the two
\* new ciphertexts of lines 98-103.
Check(t) ==
    /\ thr[t].pc = "check"
    /\ \E bal \in balance(thr[t].objs[thr[t].user_id]) :
          IF thr[t].op = "withdraw"
          THEN IF withdraw_allowed(bal, thr[t].amount)
               THEN thr' = [thr EXCEPT ![t].pc = "assign"]
               ELSE thr' = [thr EXCEPT ![t].pc = "done", ![t].outcome = "insufficient",
                                       ![t].objs = <<>>]
          ELSE IF transfer_allowed(thr[t].recipient, bal, thr[t].amount)
               THEN thr' = [thr EXCEPT
                       ![t].pc = "assign_sender",
                       ![t].new_sender =
                           transfer_new_sender(thr[t].objs, thr[t].user_id, thr[t].amount),
                       ![t].new_recipient =
                           transfer_new_recipient(thr[t].objs, thr[t].recipient, thr[t].amount)]
               ELSE thr' = [thr EXCEPT ![t].pc = "done", ![t].outcome = "failed",
                                       ![t].objs = <<>>]
    /\ UNCHANGED <<users, session, last, users0, writer>>

\* deposit lines 121-124, withdraw lines 138-141: the row object is assigned.
Assign(t) ==
    /\ thr[t].pc = "assign"
    /\ thr' = [thr EXCEPT
                 ![t].objs = IF thr[t].op = "deposit"
                             THEN deposit_db(thr[t].objs, thr[t].user_id, thr[t].amount)
                             ELSE withdraw_apply(thr[t].objs, thr[t].user_id, thr[t].amount),
                 ![t].dirty = {thr[t].user_id},
                 ![t].pc = "commit"]
    /\ UNCHANGED <<users, session, last, users0, writer>>

\* transfer line 105.
AssignSender(t) ==
    /\ thr[t].pc = "assign_sender"
    /\ thr' = [thr EXCEPT
                 ![t].objs = [thr[t].objs EXCEPT
                                ![thr[t].user_id].encrypted_balance = thr[t].new_sender],
                 ![t].dirty = {thr[t].user_id},
                 ![t].pc = "assign_recipient"]
    /\ UNCHANGED <<users, session, last, users0, writer>>

\* transfer line 106.
AssignRecipient(t) ==
    /\ thr[t].pc = "assign_recipient"
    /\ thr' = [thr EXCEPT
                 ![t].objs = [thr[t].objs EXCEPT
                                ![thr[t].recipient].encrypted_balance = thr[t].new_recipient],
                 ![t].dirty = thr[t].dirty \cup {thr[t].recipient},
                 ![t].pc = "commit"]
    /\ UNCHANGED <<users, session, last, users0, writer>>

\* db.session.commit(), lines 108, 125, 142.
Commit(t) ==
    /\ thr[t].pc = "commit"
    /\ users' = commit(users, thr[t].objs, thr[t].dirty)
    /\ thr' = [thr EXCEPT ![t].pc = "done", ![t].outcome = "applied",
                          ![t].objs = <<>>, ![t].dirty = {}]
    /\ UNCHANGED <<session, last, users0, writer>>

\* The request dies (the worker is killed) wherever it is; what it held in
\* memory is gone, the table keeps what was committed.
Crash(t) ==
    /\ thr[t].pc \notin {"idle", "done", "crashed"}
    /\ thr' = [thr EXCEPT ![t] = [Idle EXCEPT !.pc = "crashed", !.op = thr[t].op,
                                       !.at = thr[t].pc]]
    /\ UNCHANGED <<users, session, last, users0, writer>>

NextConc ==
    \/ \E t \in Threads, user_id \in Ids(users), amount \in ConcAmounts :
          \/ Begin(t, "deposit", user_id, amount, "")
          \/ Begin(t, "withdraw", user_id, amount, "")
          \/ \E name \in Names : Begin(t, "transfer", user_id, amount, name)
    \/ \E t \in Threads : GetUser(t)
    \/ \E t \in Threads : GetRecipient(t)
    \/ \E t \in Threads : Check(t)
    \/ \E t \in Threads : Assign(t)
    \/ \E t \in Threads : AssignSender(t)
    \/ \E t \in Threads : AssignRecipient(t)
    \/ \E t \in Threads : Commit(t)
    \/ \E t \in Threads : Crash(t)

SpecConc == InitConc /\ [][NextConc]_vars

----------------------------------------------------------------------------
\* SpecScen: the one client of Spec with the form values of the walk-through
\* (alice and bob; 40.00, 100.00 and 1000.00).

\* Largest balance (in mills) an account reaches in SpecScen: 100.00.
ScenMaxBal == 100000

ScenNames == {"alice", "bob"}

ScenPasswords == {"pw1"}

\* 40.00, 100.00 and 1000.00 in mills.
ScenAmounts == {4000 * Cent, 10000 * Cent, 100000 * Cent}

ScenInRange(db) == \A i \in Ids(db) : Plain(db[i]) >= 0 /\ Plain(db[i]) <= ScenMaxBal

ScenDeposit(amount) == DepositReq(amount) /\ ScenInRange(users')

ScenWithdraw(amount) == WithdrawReq(amount) /\ ScenInRange(users')

ScenTransfer(recipient_username, amount) ==
    TransferReq(recipient_username, amount) /\ ScenInRange(users')

NextScen ==
    \/ \E username \in ScenNames, password \in ScenPasswords : Register(username, password)
    \/ \E username \in ScenNames, password \in ScenPasswords : Login(username, password)
    \/ Logout
    \/ Dashboard
    \/ \E amount \in ScenAmounts : ScenDeposit(amount)
    \/ \E amount \in ScenAmounts : ScenWithdraw(amount)
    \/ \E recipient_username \in ScenNames, amount \in ScenAmounts :
          ScenTransfer(recipient_username, amount)

SpecScen == Init /\ [][NextScen]_vars

----------------------------------------------------------------------------
\* SpecFair: the requests of SpecConc, all of them transfers, with the commit
\* split as the database runs it: the flush opens a transaction and issues the
\* UPDATEs, for which it must hold the database's one write lock (a second
\* writer waits for it), and COMMIT makes them visible and gives the lock up.
\* The server runs each request on a thread of its own; every thread that can
\* take a step eventually takes one.

\* The amounts of the transfers.
FairAmounts == {Cent}

\* The table the transfers start from: alice and bob hold one cent each.
FairUsers == deposit_db(ConcUsers, 2, Cent)

InitFair ==
    /\ users = FairUsers
    /\ users0 = FairUsers
    /\ session = NoUser
    /\ last = Req("none", "none", 0, "")
    /\ thr = [t \in Threads |-> Idle]
    /\ writer = NoWriter

\* A commit that leaves its transaction open: the write lock stays held.
unlock_never(w) == w

\* COMMIT, line 108: the transaction ends and the write lock is free again.
unlock(w) == NoWriter

\* db.session.commit(), line 108, first half: BEGIN and the UPDATEs of the
\* assigned rows, once no other request holds the write lock.
Flush(t) ==
    /\ thr[t].pc = "commit"
    /\ writer = NoWriter
    /\ writer' = t
    /\ thr' = [thr EXCEPT ![t].pc = "flushed"]
    /\ UNCHANGED <<users, session, last, users0>>

\* db.session.commit(), line 108, second half: COMMIT.
CommitTx(t) ==
    /\ thr[t].pc = "flushed"
    /\ users' = commit(users, thr[t].objs, thr[t].dirty)
    /\ writer' = unlock(writer)
    /\ thr' = [thr EXCEPT ![t].pc = "done", ![t].outcome = "applied",
                          ![t].objs = <<>>, ![t].dirty = {}]
    /\ UNCHANGED <<session, last, users0>>

\* The steps of request t once it has arrived.
Run(t) ==
    \/ GetUser(t)
    \/ GetRecipient(t)
    \/ Check(t)
    \/ AssignSender(t)
    \/ AssignRecipient(t)
    \/ Flush(t)
    \/ CommitTx(t)

NextFair ==
    \/ \E t \in Threads, user_id \in Ids(users), amount \in FairAmounts, name \in Names :
          Begin(t, "transfer", user_id, amount, name)
    \/ \E t \in Threads : GetUser(t)
    \/ \E t \in Threads : GetRecipient(t)
    \/ \E t \in Threads : Check(t)
    \/ \E t \in Threads : AssignSender(t)
    \/ \E t \in Threads : AssignRecipient(t)
    \/ \E t \in Threads : Flush(t)
    \/ \E t \in Threads : CommitTx(t)

SpecFair == InitFair /\ [][NextFair]_vars /\ \A t \in Threads : WF_vars(Run(t))

----------------------------------------------------------------------------
\* SpecCodec: the balance property on one User object: a value is stored
\* through the setter and read back through the getter.

\* Largest absolute value (in mills) stored through the setter.
MaxValue == 25

CodecValues == -MaxValue..MaxValue

\* User(username=username, password=hashed_password), line 52: no balance yet.
new_user ==
    [username |-> "alice", password |-> generate_password_hash("pw1"),
     encrypted_balance |-> NoBlob]

InitCodec ==
    /\ users = <<new_user>>
    /\ \E value \in CodecValues : last = Req("value", "none", value, "")
    /\ session = NoUser
    /\ thr = <<>>
    /\ users0 = <<>>
    /\ writer = NoWriter

\* user.balance = value, lines 33-36.
StoreBalance ==
    /\ last.op = "value"
    /\ users' = [users EXCEPT ![1] = set_balance(users[1], last.amount)]
    /\ last' = Req("set", "ok", last.amount, "")
    /\ UNCHANGED <<session, thr, users0, writer>>

\* user.balance, lines 26-31, of the object as it is: with the stored
\* ciphertext, or with none yet (line 31).
ReadBalance ==
    /\ last.op \in {"value", "set"}
    /\ \E bal \in balance(users[1]) :
          last' = [Req("get", IF last.op = "set" THEN "ok" ELSE "absent", last.amount, "")
                     EXCEPT !.shown = bal]
    /\ UNCHANGED <<users, session, thr, users0, writer>>

NextCodec ==
    \/ StoreBalance
    \/ ReadBalance

SpecCodec == InitCodec /\ [][NextCodec]_vars

----------------------------------------------------------------------------
\* Properties.

Applied(req, op) == req.op = op /\ req.outcome = "applied"

SamePlain(db1, db2) ==
    /\ Len(db1) = Len(db2)
    /\ \A i \in Ids(db1) : Plain(db1[i]) = Plain(db2[i])

\* C1 (Conservation): every request changes the sum of all balances by the
\* amount of an applied deposit, minus the amount of an applied withdrawal,
\* and by nothing else; a transfer, also one to the sender's own account,
\* leaves the sum as it is.
C1_Conservation ==
    [][Total(users') = Total(users)
                       + (IF Applied(last', "deposit") THEN last'.amount ELSE 0)
                       - (IF Applied(last', "withdraw") THEN last'.amount ELSE 0)]_vars

\* C2 (No-overdraw): a withdrawal or transfer is applied only when its amount
\* is at most the exact balance the session's account holds.
C2_NoOverdraw ==
    [][(Applied(last', "withdraw") \/ Applied(last', "transfer"))
          => last'.amount <= Plain(users[session])]_vars

\* C3 (A failed operation mutates nothing): a withdrawal refused for
\* insufficient funds and a transfer refused for a missing recipient or
\* insufficient funds leave every row of the table exactly as it was.
C3_FailedMutatesNothing ==
    [][(last'.op \in {"withdraw", "transfer"} /\ last'.outcome \in {"insufficient", "failed"})
          => users' = users]_vars

\* C3 witness: a withdrawal was refused while three accounts exist and the
\* refused account holds money.
C3_Witness ==
    /\ last.op = "withdraw" /\ last.outcome = "insufficient"
    /\ Len(users) = 3
    /\ session # NoUser
    /\ Plain(users[session]) > 0

\* A transfer was refused because the recipient does not exist.
TransferToNobodyRefused ==
    /\ last.op = "transfer" /\ last.outcome = "failed"
    /\ session # NoUser
    /\ first_by_username(users, last.name) = NoUser
    /\ Plain(users[session]) >= last.amount

\* The tables the transfer of request t can leave when it runs alone on db.
\* A crashed request no longer tells its form values: any transfer counts.
TransferOutcomes(db, t) ==
    IF thr[t].pc = "crashed"
    THEN {transfer_apply(db, sender, recipient, amount) :
            sender \in Ids(db), recipient \in Ids(db), amount \in ConcAmounts}
    ELSE IF first_by_username(db, thr[t].name) = NoUser
    THEN {}
    ELSE {transfer_apply(db, thr[t].user_id, first_by_username(db, thr[t].name),
                         thr[t].amount)}

\* C4 (Transfer atomicity): while a transfer is the only request that has
\* run, wherever it stands or crashed, the table shows either the balances
\* from before the transfer for every account or the balances after it for
\* both its accounts; never one of its two writes without the other.
C4_TransferAtomic ==
    \A t \in Threads :
        (thr[t].op = "transfer" /\ \A u \in Threads \ {t} : thr[u].pc = "idle")
            => (users = users0 \/ users \in TransferOutcomes(users0, t))

\* C4 witness: a transfer between two accounts crashed after line 105
\* assigned the sender and before line 106 assigned the recipient.
C4_Witness ==
    \E t \in Threads :
        /\ thr[t].op = "transfer" /\ thr[t].pc = "crashed"
        /\ thr[t].at = "assign_recipient"
        /\ \A u \in Threads \ {t} : thr[u].pc = "idle"

\* A transfer between two accounts ran alone to its commit.
TransferCommittedAlone ==
    \E t \in Threads :
        /\ thr[t].op = "transfer" /\ thr[t].pc = "done" /\ thr[t].outcome = "applied"
        /\ thr[t].recipient # thr[t].user_id
        /\ \A u \in Threads \ {t} : thr[u].pc = "idle"
        /\ users # users0

\* C5 (No lost updates): when every request was Deposit(alice, 0.01) and all
\* are done, alice holds her initial balance plus 0.01 per request.
C5_NoLostUpdates ==
    (\A t \in Threads :
        /\ thr[t].pc = "done" /\ thr[t].op = "deposit"
        /\ thr[t].user_id = 1 /\ thr[t].amount = Cent)
      => Plain(users[1]) = Plain(users0[1]) + Cent * NThreads

\* The tables request t, run alone on db, can leave with the outcome it had.
SeqOne(db, t) ==
    LET r == thr[t]
    IN  CASE r.op = "deposit" -> {deposit_db(db, r.user_id, r.amount)}
          [] r.op = "withdraw" ->
                {withdraw_db(db, r.user_id, r.amount, bal) :
                    bal \in {b \in balance(db[r.user_id]) :
                                withdraw_allowed(b, r.amount) <=> r.outcome = "applied"}}
          [] OTHER ->
                {transfer_db(db, r.user_id, first_by_username(db, r.name), r.amount, bal) :
                    bal \in {b \in balance(db[r.user_id]) :
                                transfer_allowed(first_by_username(db, r.name), b, r.amount)
                                    <=> r.outcome = "applied"}}

RECURSIVE SeqFinals(_, _)
SeqFinals(dbs, order) ==
    IF order = <<>> THEN dbs
    ELSE SeqFinals(UNION {SeqOne(db, Head(order)) : db \in dbs}, Tail(order))

Orders == {o \in [Threads -> Threads] : \A i, j \in Threads : o[i] = o[j] => i = j}

\* C6 (Per-account linearizability): when all requests are done, their
\* outcomes and the final table are those of running the same requests one
\* after another in some order.
C6_Linearizable ==
    (\A t \in Threads : thr[t].pc = "done")
      => \E o \in Orders : users \in SeqFinals({users0}, o)

\* C6, the case the claim names: two withdrawals from one account, each
\* affordable alone and not together, are never both applied.
TwoWithdrawsNotBoth ==
    \A t, u \in Threads :
        (/\ t # u
         /\ \A w \in Threads \ {t, u} : thr[w].pc = "idle"
         /\ thr[t].pc = "done" /\ thr[u].pc = "done"
         /\ thr[t].op = "withdraw" /\ thr[u].op = "withdraw"
         /\ thr[t].user_id = thr[u].user_id
         /\ thr[t].amount <= Plain(users0[thr[t].user_id])
         /\ thr[u].amount <= Plain(users0[thr[t].user_id])
         /\ thr[t].amount + thr[u].amount > Plain(users0[thr[t].user_id]))
        => ~(thr[t].outcome = "applied" /\ thr[u].outcome = "applied")

\* C7 (Withdraw enforces a positive amount): a withdrawal whose amount is
\* zero or negative leaves every balance as it was.
C7_WithdrawPositive ==
    [][(last'.op = "withdraw" /\ last'.amount <= 0) => SamePlain(users', users)]_vars

\* C8 (Transfer requires a positive amount): a transfer whose amount is zero
\* or negative leaves every balance as it was.
C8_TransferPositive ==
    [][(last'.op = "transfer" /\ last'.amount <= 0) => SamePlain(users', users)]_vars

\* C9 (No self-transfer): a transfer whose recipient is the sender's own
\* account leaves every balance as it was.
C9_NoSelfTransfer ==
    [][(last'.op = "transfer" /\ session # NoUser
          /\ first_by_username(users, last'.name) = session)
          => SamePlain(users', users)]_vars

UniqueUsernames(db) ==
    \A i, j \in Ids(db) : db[i].username = db[j].username => i = j

\* C10 (Register): registering a free username adds one account, whose stored
\* balance is a ciphertext of 0.00, and changes no other row; registering a
\* taken username leaves the table, balances and credentials included, as it
\* was; no two accounts ever share a username.
C10_Register ==
    /\ [](UniqueUsernames(users))
    /\ [][last'.op = "register" =>
            IF \E i \in Ids(users) : users[i].username = last'.name
            THEN users' = users
            ELSE /\ Len(users') = Len(users) + 1
                 /\ SubSeq(users', 1, Len(users)) = users
                 /\ users'[Len(users')].username = last'.name
                 /\ users'[Len(users')].encrypted_balance # NoBlob
                 /\ users'[Len(users')].encrypted_balance[1] = "CKKS"
                 /\ Plain(users'[Len(users')]) = 0
                 /\ balance(users'[Len(users')]) = {0}]_vars

\* C10 witness: a taken username was registered again while its account
\* holds money.
C10_Witness ==
    /\ last.op = "register" /\ last.outcome = "exists"
    /\ \E i \in Ids(users) : users[i].username = last.name /\ Plain(users[i]) > 0

\* The exact balance of the account called name.
BalanceOf(db, name) == Plain(db[first_by_username(db, name)])

\* alice and bob are registered, alice is logged in, and they hold a and b.
ScenAt(a, b) ==
    /\ first_by_username(users, "alice") # NoUser
    /\ first_by_username(users, "bob") # NoUser
    /\ session = first_by_username(users, "alice")
    /\ BalanceOf(users, "alice") = a
    /\ BalanceOf(users, "bob") = b

\* C11 (Scenario): with alice and bob registered at 0.00 and alice logged in,
\* Deposit(alice, 100.00) is applied and alice holds and is shown 100.00;
\* from there Transfer(alice, bob, 40.00) is applied and leaves alice 60.00
\* and bob 40.00; from there Withdraw(alice, 1000.00) is refused for
\* insufficient funds and the table stays as it was (60.00 and 40.00).
C11_Scenario ==
    [][/\ (ScenAt(0, 0) /\ last'.op = "deposit" /\ last'.amount = 10000 * Cent)
            => /\ last'.outcome = "applied"
               /\ BalanceOf(users', "alice") = 10000 * Cent
               /\ balance(users'[session]) = {10000 * Cent}
               /\ BalanceOf(users', "bob") = 0
       /\ (ScenAt(10000 * Cent, 0) /\ last'.op = "transfer"
             /\ last'.name = "bob" /\ last'.amount = 4000 * Cent)
            => /\ last'.outcome = "applied"
               /\ BalanceOf(users', "alice") = 6000 * Cent
               /\ BalanceOf(users', "bob") = 4000 * Cent
       /\ (ScenAt(6000 * Cent, 4000 * Cent) /\ last'.op = "withdraw"
             /\ last'.amount = 100000 * Cent)
            => /\ last'.outcome = "insufficient"
               /\ users' = users]_vars

\* C11 witness: the walk-through's last state: the withdrawal of 1000.00 was
\* refused with alice at 60.00 and bob at 40.00.
C11_Witness ==
    /\ ScenAt(6000 * Cent, 4000 * Cent)
    /\ last.op = "withdraw" /\ last.outcome = "insufficient"
    /\ last.amount = 100000 * Cent

\* Requests t and u are transfers in opposite directions between two accounts.
Opposite(t, u) ==
    /\ t # u
    /\ thr[t].op = "transfer" /\ thr[u].op = "transfer"
    /\ thr[t].pc # "idle" /\ thr[u].pc # "idle"
    /\ thr[t].user_id # thr[u].user_id
    /\ thr[t].name = users[thr[u].user_id].username
    /\ thr[u].name = users[thr[t].user_id].username

\* Request t has completed: applied or failed.
Ended(t) == thr[t].pc = "done" /\ thr[t].outcome \in {"applied", "failed"}

\* C12 (No deadlock): two transfers in flight in opposite directions between
\* the same two accounts both complete, applied or failed, in every fair
\* interleaving of their steps.
C12_NoDeadlock ==
    \A t, u \in Threads : Opposite(t, u) ~> (Ended(t) /\ Ended(u))

\* C12 witness: one of two opposite transfers holds the write lock with its
\* UPDATEs issued while the other has assigned both rows and waits to flush.
C12_Witness ==
    \E t, u \in Threads :
        /\ Opposite(t, u)
        /\ thr[t].pc = "flushed" /\ writer = t
        /\ thr[u].pc = "commit"

\* Two opposite transfers both ended applied.
OppositeBothApplied ==
    \E t, u \in Threads :
        Opposite(t, u) /\ Ended(t) /\ Ended(u)
            /\ thr[t].outcome = "applied" /\ thr[u].outcome = "applied"

Abs(x) == IF x < 0 THEN -x ELSE x

ReadOfAbsentBalance ==
    last.op = "get" /\ last.outcome = "absent" /\ last.shown = 0 /\ last.amount # 0

\* Both roundings of an exact half cent are read back.
HalfCentReadDown ==
    last.op = "get" /\ last.outcome = "ok" /\ last.amount = 15 /\ last.shown = 10

\* Every row other than those with an id in ids is the same in db1 and db2.
SameExcept(db1, db2, ids) ==
    /\ Len(db1) = Len(db2)
    /\ \A i \in Ids(db1) \ ids : db1[i] = db2[i]

\* C14 (Transfer effect and frame): an applied transfer to another account
\* lowers the sender's balance by exactly the amount, raises the recipient's
\* by exactly the amount, and leaves every other row as it was.
C14_TransferFrame ==
    [][(Applied(last', "transfer") /\ first_by_username(users, last'.name) # session)
          => LET recipient == first_by_username(users, last'.name)
             IN  /\ Plain(users'[session]) = Plain(users[session]) - last'.amount
                 /\ Plain(users'[recipient]) = Plain(users[recipient]) + last'.amount
                 /\ SameExcept(users', users, {session, recipient})]_vars

\* C14 witness: a transfer of a positive amount to another account was
\* applied while a third account holds money.
C14_Witness ==
    /\ Applied(last, "transfer") /\ last.amount > 0
    /\ Len(users) = 3
    /\ first_by_username(users, last.name) # session
    /\ \E i \in Ids(users) \ {session, first_by_username(users, last.name)} :
          Plain(users[i]) > 0

\* C15 (Deposit and Withdraw effect and frame): a deposit raises the balance
\* of the session's account by exactly the amount, an applied withdrawal
\* lowers it by exactly the amount, and both leave every other row as it was.
C15_DepositWithdrawFrame ==
    [][/\ Applied(last', "deposit")
            => /\ Plain(users'[session]) = Plain(users[session]) + last'.amount
               /\ SameExcept(users', users, {session})
       /\ Applied(last', "withdraw")
            => /\ Plain(users'[session]) = Plain(users[session]) - last'.amount
               /\ SameExcept(users', users, {session})]_vars

\* C15 witness: a deposit of a positive amount was applied to an account that
\* held money already, while another account holds money.
C15_Witness ==
    /\ Applied(last, "deposit") /\ last.amount > 0
    /\ Plain(users[session]) > last.amount
    /\ \E i \in Ids(users) \ {session} : Plain(users[i]) > 0

\* An applied withdrawal of a positive amount.
WithdrawApplied ==
    /\ Applied(last, "withdraw") /\ last.amount > 0
    /\ \E i \in Ids(users) \ {session} : Plain(users[i]) > 0

\* C16 (Display balance is read-only): the dashboard changes no row of the
\* table, and when a user is logged in the balance it shows is that user's
\* stored balance rounded to whole cents.
C16_DashboardReadOnly ==
    [][last'.op = "dashboard"
          => /\ users' = users
             /\ session = NoUser => last'.outcome = "redirect"
             /\ session # NoUser
                  => /\ last'.outcome = "ok"
                     /\ last'.shown % Cent = 0
                     /\ 2 * Abs(last'.shown - Plain(users[session])) <= Cent]_vars

\* C16 witness: the dashboard showed a balance that differs from the stored
\* one by its rounding.
C16_Witness ==
    /\ last.op = "dashboard" /\ last.outcome = "ok"
    /\ session # NoUser
    /\ last.shown # Plain(users[session])

\* C17 (Balances never negative): every account's stored balance is at least
\* zero in every reachable state.
C17_NonNegative ==
    \A i \in Ids(users) : Plain(users[i]) >= 0

\* C18 (Session guard): a deposit, withdrawal or transfer requested while no
\* user is logged in is redirected and changes nothing; a balance changes
\* only by such a request made while a user is logged in, a deposit or
\* withdrawal changing that user's row only; the session's user changes only
\* by logout, or by a login with the username and password of the account
\* that becomes the session's user; a login without a matching account and
\* password leaves the session as it was.
C18_SessionGuard ==
    [][/\ (session = NoUser /\ last'.op \in {"deposit", "withdraw", "transfer"})
            => (users' = users /\ last'.outcome = "redirect")
       /\ (\E i \in Ids(users) : users'[i] # users[i])
            => /\ session # NoUser /\ session' = session
               /\ last'.op \in {"deposit", "withdraw", "transfer"}
               /\ last'.op \in {"deposit", "withdraw"} => SameExcept(users', users, {session})
       /\ session' # session
            => \/ last'.op = "logout" /\ session' = NoUser
               \/ /\ last'.op = "login" /\ session' # NoUser
                  /\ users[session'].username = last'.name
                  /\ check_password_hash(users[session'].password, last'.password)
       /\ (last'.op = "login"
             /\ ~ \E i \in Ids(users) :
                    /\ users[i].username = last'.name
                    /\ check_password_hash(users[i].password, last'.password))
            => (session' = session /\ last'.outcome = "invalid")]_vars

\* C18 witness: after a login with a wrong password for an account that holds
\* money, with no user logged in.
C18_Witness ==
    /\ last.op = "login" /\ last.outcome = "invalid"
    /\ session = NoUser
    /\ \E i \in Ids(users) :
          /\ users[i].username = last.name
          /\ ~ check_password_hash(users[i].password, last.password)
          /\ Plain(users[i]) > 0

\* A deposit was redirected because no user is logged in.
DepositRedirected ==
    /\ last.op = "deposit" /\ last.outcome = "redirect" /\ last.amount > 0
    /\ Len(users) > 0

\* C19 (Accounts persist with a ciphertext): no request removes a row or
\* changes its username, and every row of the table after any request holds
\* a ciphertext, never an absent one.
C19_AccountsStay ==
    [][/\ Len(users') >= Len(users)
       /\ \A i \in Ids(users) : users'[i].username = users[i].username
       /\ \A i \in Ids(users') : users'[i].encrypted_balance # NoBlob]_vars

\* C19 witness: three accounts exist, one of them back at a stored 0.00
\* after an applied withdrawal.
C19_Witness ==
    /\ Len(users) = 3
    /\ Applied(last, "withdraw") /\ last.amount > 0
    /\ Plain(users[session]) = 0
    /\ users[session].encrypted_balance # NoBlob

====
